---- MODULE Spec2Model ----
(***************************************************************************)
(* Model of the incremental sync of src/myTimerFunction/__init__.py:       *)
(* main() reads the watermark of table Outages, fetches the window         *)
(* [watermark + 1 day, today] from the upstream API, normalises the rows   *)
(* and appends them with to_sql.                                           *)
(*                                                                         *)
(* Dates are day numbers; day Epoch is 1900-01-01.  A nullable value is a  *)
(* sequence of length at most one: <<>> is NULL / NaN / NaT, <<v>> is v.   *)
(* A raw JSON value of the upstream payload is a record [t, v] whose tag t *)
(* is "iso" (an ISO date string), "num" (a number or numeric string),      *)
(* "bad" (an unparseable string), "null" (JSON null) or "absent" (the key  *)
(* is missing from the object).                                            *)
(***************************************************************************)
EXTENDS Integers, Sequences, FiniteSets, TLC

\* ---------------------------------------------------------------- bounds
MaxDay   == 2      \* days are Epoch..MaxDay
MaxBatch == 2      \* longest upstream payload (rows)
MaxRuns  == 3      \* invocations of main in one behaviour
NProcs   == 2      \* invocations that may exist side by side

\* ------------------------------------------------------ program constants
Epoch == 0         \* datetime.date(1900, 1, 1)
OneDay == 1        \* datetime.timedelta(days=1)

Procs == 1..NProcs
Days  == Epoch..MaxDay
Gens  == {"g1", "g2"}

Null    == <<>>
Some(v) == <<v>>
IsNull(x) == x = <<>>

Max(S) == CHOOSE x \in S : \A y \in S : y <= x

\* ------------------------------------------------------------ raw values
Iso(d)  == [t |-> "iso", v |-> d]
Num(n)  == [t |-> "num", v |-> n]
Bad     == [t |-> "bad", v |-> 0]
JNull   == [t |-> "null", v |-> 0]
Absent  == [t |-> "absent", v |-> 0]

RawRow(g, p, c, o, pct) ==
  [gen |-> g, period |-> p, capacity |-> c, outage |-> o,
   percentOutage |-> pct, units |-> "percent"]

GoodRaw(g, d) == RawRow(g, Iso(d), Num(100), Num(50), Num(50))

\* the upstream rows the model draws payloads from, newest period first (the
\* request asks for sort[0][column]=period, sort[0][direction]=desc)
RawRowList ==
  << RawRow("g1", Iso(MaxDay), Num(100), Num(50), Bad),
     RawRow("g1", Iso(MaxDay), Bad,      JNull,   Num(50)),
     RawRow("g2", Iso(MaxDay), Num(100), Num(50), Absent),
     RawRow("g2", Iso(MaxDay), Num(100), Absent,  Num(50)) >> \o
  [i \in 1..(MaxDay - Epoch) |-> GoodRaw("g1", MaxDay + 1 - i)] \o
  << RawRow("g1", Bad, Num(100), Num(50), Num(50)) >>

Min(S) == CHOOSE x \in S : \A y \in S : x <= y

RECURSIVE RowsAt(_)
RowsAt(S) ==
  IF S = {} THEN <<>>
  ELSE <<RawRowList[Min(S)]>> \o RowsAt(S \ {Min(S)})

\* a payload is at most MaxBatch distinct rows of the list, in its order
Payloads ==
  {RowsAt(S) : S \in {T \in SUBSET (1..Len(RawRowList)) :
                        Cardinality(T) <= MaxBatch}}

NoResponse == [kind |-> "none", data |-> <<>>]

RespKinds == {"network", "http", "json", "shape", "ok"}

Responses ==
  {[kind |-> k, data |-> <<>>] : k \in RespKinds \ {"ok"}} \cup
  {[kind |-> "ok", data |-> d] : d \in Payloads}

\* the upstream holds the rows of the list dated up to day pub; its range
\* filter is inclusive on both ends and compares the ISO strings
InRange(row, pub, start, end) ==
  /\ row.period.t = "iso"
  /\ row.period.v <= pub
  /\ start.v <= row.period.v
  /\ row.period.v <= end.v

RECURSIVE FirstN(_, _)
FirstN(S, n) ==
  IF n = 0 \/ S = {} THEN {}
  ELSE {Min(S)} \cup FirstN(S \ {Min(S)}, n - 1)

\* offset=0 and no paging: the first page of the rows in range, newest first
FirstPage(pub, start, end) ==
  RowsAt(FirstN({i \in 1..Len(RawRowList) :
                  InRange(RawRowList[i], pub, start, end)}, MaxBatch))

\* what an upstream that honours the request may answer: the page or an error
HonestResponses(pub, start, end) ==
  {[kind |-> k, data |-> <<>>] : k \in RespKinds \ {"ok"}} \cup
  {[kind |-> "ok", data |-> FirstPage(pub, start, end)]}

\* ------------------------------------------------------- pandas helpers
\* pd.to_datetime(..., errors="coerce")
to_datetime(x) == IF x.t = "iso" THEN Some(x.v) ELSE Null

\* pd.to_numeric(..., errors="coerce")
to_numeric(x) == IF x.t = "num" THEN Some(x.v) ELSE Null

\* a column of pd.DataFrame(list of dicts) exists iff some row has the key
HasColumn(data, col) == \E i \in 1..Len(data) : data[i][col].t # "absent"

\* columns after the drop of the *-units columns and the four coercions
Coerce(r) ==
  [gen |-> r.gen,
   period |-> to_datetime(r.period),
   capacity |-> to_numeric(r.capacity),
   outage |-> to_numeric(r.outage),
   percentOutage |-> to_numeric(r.percentOutage)]

\* variant: dropna(subset=["period"])
DropnaKeep_period_only(r) == ~IsNull(r.period)

\* df.dropna(subset=["period", "percentOutage"])
DropnaKeep(r) == ~IsNull(r.period) /\ ~IsNull(r.percentOutage)

RECURSIVE dropna(_)
dropna(df) ==
  IF df = <<>> THEN <<>>
  ELSE IF DropnaKeep(Head(df)) THEN <<Head(df)>> \o dropna(Tail(df))
       ELSE dropna(Tail(df))

MapCoerce(data) == [i \in 1..Len(data) |-> Coerce(data[i])]

\* df[col] raises KeyError when the frame has no such column
MissingColumn(data) ==
  \E col \in {"period", "capacity", "outage", "percentOutage"} :
    ~HasColumn(data, col)

\* variant: the last handler, except Exception, is left out
retrieve_and_clean_data_from_api_no_catch_all(resp) ==
  IF resp.kind \in {"network", "http", "json"}
    THEN [df |-> <<>>, out |-> <<"Request error">>, raised |-> FALSE]
  ELSE IF resp.kind = "shape"
    THEN [df |-> <<>>, out |-> <<"Data error">>, raised |-> FALSE]
  ELSE IF MissingColumn(resp.data)
    THEN [df |-> <<>>, out |-> <<>>, raised |-> TRUE]
  ELSE [df |-> dropna(MapCoerce(resp.data)), out |-> <<>>, raised |-> FALSE]

\* retrieve_and_clean_data_from_api: the cleaned frame, what it printed and
\* whether an exception left it
retrieve_and_clean_data_from_api(resp) ==
  IF resp.kind \in {"network", "http", "json"}
    THEN [df |-> <<>>, out |-> <<"Request error">>, raised |-> FALSE]
  ELSE IF resp.kind = "shape"
    THEN [df |-> <<>>, out |-> <<"Data error">>, raised |-> FALSE]
  ELSE IF MissingColumn(resp.data)
    THEN [df |-> <<>>, out |-> <<"Unexpected error">>, raised |-> FALSE]
  ELSE [df |-> dropna(MapCoerce(resp.data)), out |-> <<>>, raised |-> FALSE]

\* ------------------------------------------------------------- storage
StoredPeriods(tbl) ==
  {tbl[i].period[1] : i \in {j \in 1..Len(tbl) : ~IsNull(tbl[j].period)}}

\* SELECT TOP 1 period FROM Outages ORDER BY period DESC, then .scalar()
SelectTopPeriod(tbl) ==
  IF StoredPeriods(tbl) = {} THEN Null ELSE Some(Max(StoredPeriods(tbl)))

\* df["period"].max()
DfMaxPeriod(df) == Max({df[i].period[1] : i \in 1..Len(df)})

SeedRow == Coerce(GoodRaw("g1", 1))

\* ---------------------------------------------------------------- state
VARIABLES
  storage,         \* table Outages: the sequence of rows, in insertion order
  clock,           \* the calendar day datetime.date.today() returns
  runs,            \* invocations of main started so far
  pc,              \* pc[p]: where invocation p of main stands
  db_last_period,  \* main's local, a day number
  start_date,      \* main's local
  today,           \* main's local
  df_new,          \* main's local: the cleaned frame
  out,             \* out[p]: what invocation p printed and logged, in order
  raised,          \* raised[p]: an exception left main
  storage0,        \* storage when invocation p started
  window,          \* the (start, end) strings handed to the Fetcher, or <<>>
  resp,            \* the upstream answer invocation p got, or NoResponse
  writerCalls,     \* calls of to_sql made by invocation p
  writeFailed,     \* the append of invocation p hit a storage-layer error
  ops,             \* ops[p]: the storage and upstream calls of invocation p
  published,       \* the upstream holds the rows dated up to this day
  pending          \* the earliest failed run to make up for, or NoPending

vars == <<storage, clock, runs, pc, db_last_period, start_date, today, df_new,
          out, raised, storage0, window, resp, writerCalls, writeFailed, ops,
          published, pending>>

upstream == <<published, pending>>

locals == <<db_last_period, start_date, today, df_new>>

NoPending == [st |-> "none", w |-> Epoch, today |-> Epoch, pub |-> Epoch]

Init ==
  /\ storage \in {<<>>, <<SeedRow>>}
  /\ clock = 1
  /\ runs = 0
  /\ pc = [p \in Procs |-> "idle"]
  /\ db_last_period = [p \in Procs |-> Epoch]
  /\ start_date = [p \in Procs |-> Epoch]
  /\ today = [p \in Procs |-> Epoch]
  /\ df_new = [p \in Procs |-> <<>>]
  /\ out = [p \in Procs |-> <<>>]
  /\ raised = [p \in Procs |-> FALSE]
  /\ storage0 = [p \in Procs |-> <<>>]
  /\ window = [p \in Procs |-> <<>>]
  /\ resp = [p \in Procs |-> NoResponse]
  /\ writerCalls = [p \in Procs |-> 0]
  /\ writeFailed = [p \in Procs |-> FALSE]
  /\ ops = [p \in Procs |-> <<>>]
  /\ published = 1
  /\ pending = NoPending

Resting(p) == pc[p] \in {"idle", "END"}

\* ------------------------------------------------------------- main
\* str(date): the ISO string of a day
StrOfDate(d) == Iso(d)

\* datetime.datetime.strptime(s, "%Y-%m-%d").date()
strptime(s) == s.v

\* the scalar the driver hands back for a stored period: a date or a string
Scalars(tbl) ==
  IF IsNull(SelectTopPeriod(tbl)) THEN {[t |-> "none", v |-> 0]}
  ELSE {[t |-> "date", v |-> SelectTopPeriod(tbl)[1]],
        [t |-> "str",  v |-> SelectTopPeriod(tbl)[1]]}

\* lines 199-205: the default for an empty table and the string case
EffectiveWatermark(sc) ==
  IF sc.t = "none" THEN Epoch
  ELSE IF sc.t = "str" THEN strptime(sc)
  ELSE sc.v

\* variant: the window starts on the watermark itself
WindowStart_same(w) == w

\* line 208
WindowStart(w) == w + OneDay

\* variant: strict comparison, an echo of the watermark counts as new
AlreadyUpToDate_strict(api_last_period, w) == api_last_period < w

\* variant: the check is left out
AlreadyUpToDate_never(api_last_period, w) == FALSE

\* line 223
AlreadyUpToDate(api_last_period, w) == api_last_period <= w

\* variant: the success line is printed before the connection is tested
connect_to_database_print_first(ok) ==
  IF ok THEN [out |-> <<"Connection to database successful">>, raised |-> FALSE]
  ELSE [out |-> <<"Connection to database successful",
                  "Failed to connect to database">>, raised |-> TRUE]

\* connect_to_database: what it prints and whether it raises
connect_to_database(ok) ==
  IF ok THEN [out |-> <<"Connection to database successful">>, raised |-> FALSE]
  ELSE [out |-> <<"Failed to connect to database">>, raised |-> TRUE]

\* variant: the test of df_new.empty is left out
Decide_no_empty_check(df, w) ==
  IF df # <<>> /\ AlreadyUpToDate(DfMaxPeriod(df), w) THEN "UP_TO_DATE"
  ELSE "WRITE"

\* lines 216-225: what main does with the cleaned frame
Decide(df, w) ==
  IF df = <<>> THEN "NO_NEW_DATA"
  ELSE IF AlreadyUpToDate(DfMaxPeriod(df), w) THEN "UP_TO_DATE"
  ELSE "WRITE"

\* main up to connect_to_database: the function starts and connects
BeginRun(p, ok) ==
  /\ Resting(p)
  /\ storage0' = [storage0 EXCEPT ![p] = storage]
  /\ db_last_period' = [db_last_period EXCEPT ![p] = Epoch]
  /\ start_date' = [start_date EXCEPT ![p] = Epoch]
  /\ today' = [today EXCEPT ![p] = Epoch]
  /\ df_new' = [df_new EXCEPT ![p] = <<>>]
  /\ window' = [window EXCEPT ![p] = <<>>]
  /\ resp' = [resp EXCEPT ![p] = NoResponse]
  /\ writerCalls' = [writerCalls EXCEPT ![p] = 0]
  /\ writeFailed' = [writeFailed EXCEPT ![p] = FALSE]
  /\ ops' = [ops EXCEPT ![p] = <<"connect">>]
  /\ LET c == connect_to_database(ok)
     IN /\ out' = [out EXCEPT ![p] = <<"Function started">> \o c.out]
        /\ raised' = [raised EXCEPT ![p] = c.raised]
        /\ pc' = [pc EXCEPT ![p] = IF c.raised THEN "END" ELSE "START"]
  /\ UNCHANGED <<storage, clock, upstream>>

\* one of the first MaxRuns invocations
Begin(p, ok) ==
  /\ runs < MaxRuns
  /\ runs' = runs + 1
  /\ BeginRun(p, ok)

\* an invocation takes the lowest free slot
FreeSlot(p) == Resting(p) /\ \A q \in Procs : q < p => ~Resting(q)

\* the scheduler starts an invocation when no other one is under way
Connect(p) ==
  /\ \A q \in Procs : Resting(q)
  /\ FreeSlot(p)
  /\ \E ok \in BOOLEAN : Begin(p, ok)

\* the scheduler goes on after the invocations that are counted
Reconnect(p) ==
  /\ \A q \in Procs : Resting(q)
  /\ FreeSlot(p)
  /\ runs = MaxRuns
  /\ runs' = runs
  /\ \E ok \in BOOLEAN : BeginRun(p, ok)

\* an invocation that starts while another one is under way
ConnectOverlapping(p) ==
  /\ \E q \in Procs : ~Resting(q)
  /\ FreeSlot(p)
  /\ \E ok \in BOOLEAN : Begin(p, ok)

\* variant: a window that starts after its end ends the run at once
PcAfterWindow_short_circuit(start, end) ==
  IF start > end THEN "END" ELSE "WINDOW_COMPUTED"

\* lines 208-214: main goes on to the fetch whatever the window is
PcAfterWindow(start, end) == "WINDOW_COMPUTED"

\* lines 189-211: the watermark read raises
ReadWatermarkFails(p) ==
  /\ pc[p] = "START"
  /\ raised' = [raised EXCEPT ![p] = TRUE]
  /\ pc' = [pc EXCEPT ![p] = "END"]
  /\ ops' = [ops EXCEPT ![p] = Append(@, "read")]
  /\ UNCHANGED <<storage, clock, runs, locals, out, storage0, window, resp,
                 writerCalls, writeFailed, upstream>>

\* lines 189-211: the watermark read and the window
ReadWatermark(p) ==
  /\ pc[p] = "START"
  /\ \E sc \in Scalars(storage) :
       /\ db_last_period' = [db_last_period EXCEPT ![p] = EffectiveWatermark(sc)]
       /\ start_date' = [start_date EXCEPT ![p] =
                           WindowStart(EffectiveWatermark(sc))]
       /\ out' = [out EXCEPT ![p] =
             IF sc.t = "none"
               THEN Append(@, "Database is empty, will insert all data")
               ELSE @]
       /\ pc' = [pc EXCEPT ![p] =
             PcAfterWindow(WindowStart(EffectiveWatermark(sc)), clock)]
  /\ today' = [today EXCEPT ![p] = clock]
  /\ ops' = [ops EXCEPT ![p] = Append(@, "read")]
  /\ UNCHANGED <<storage, clock, runs, df_new, raised, storage0, window, resp,
                 writerCalls, writeFailed, upstream>>

\* lines 214-225: the fetch, answered by r, and the two early returns
FetchWith(p, r) ==
  /\ pc[p] = "WINDOW_COMPUTED"
  /\ LET res == retrieve_and_clean_data_from_api(r)
         df  == res.df
         d   == Decide(df, db_last_period[p])
     IN /\ resp' = [resp EXCEPT ![p] = r]
        /\ df_new' = [df_new EXCEPT ![p] = df]
        /\ raised' = [raised EXCEPT ![p] = res.raised]
        /\ out' = [out EXCEPT ![p] = @ \o res.out \o
              CASE res.raised -> <<>>
                [] d = "NO_NEW_DATA" ->
                     <<"No new data from API, nothing to insert">>
                [] d = "UP_TO_DATE" ->
                     <<"API data already up to date with DB, nothing to insert">>
                [] OTHER -> <<>>]
        /\ pc' = [pc EXCEPT ![p] =
                    IF ~res.raised /\ d = "WRITE" THEN "WRITE" ELSE "END"]
  /\ window' = [window EXCEPT ![p] =
                  <<StrOfDate(start_date[p]), StrOfDate(today[p])>>]
  /\ ops' = [ops EXCEPT ![p] = Append(@, "fetch")]
  /\ UNCHANGED <<storage, clock, runs, db_last_period, start_date, today,
                 storage0, writerCalls, writeFailed, published>>

\* the upstream answers with anything
Fetch(p) ==
  /\ \E r \in Responses : FetchWith(p, r)
  /\ UNCHANGED pending

\* the upstream honours the request
FetchHonest(p) ==
  /\ \E r \in HonestResponses(published, StrOfDate(start_date[p]),
                               StrOfDate(today[p])) : FetchWith(p, r)
  /\ UNCHANGED pending

\* the fetch of invocation p: its watermark, its window end and the upstream
\* it asked, kept as st ("cand" until the run has written, "failed")
PendingOf(p, st) ==
  IF pending.st = "failed" THEN pending
  ELSE [st |-> st, w |-> db_last_period[p], today |-> today[p],
        pub |-> published]

\* the upstream honours the request; a failed fetch is remembered, a fetch
\* that finds nothing to write leaves nothing to make up for
FetchHeal(p) ==
  \E r \in HonestResponses(published, StrOfDate(start_date[p]),
                            StrOfDate(today[p])) :
    /\ FetchWith(p, r)
    /\ pending' = IF r.kind # "ok" THEN PendingOf(p, "failed")
                  ELSE IF pc'[p] = "WRITE" THEN PendingOf(p, "cand")
                  ELSE NoPending

WriteOutcomes == {"ok", "SQLAlchemyError", "Exception"}

\* variant: if_exists="replace"
df_to_sql_replace(tbl, df) == df

\* variant: an upsert, rows that are already stored are skipped
RECURSIVE df_to_sql_dedup(_, _)
df_to_sql_dedup(tbl, df) ==
  IF df = <<>> THEN tbl
  ELSE IF \E i \in 1..Len(tbl) : tbl[i] = Head(df)
    THEN df_to_sql_dedup(tbl, Tail(df))
  ELSE df_to_sql_dedup(Append(tbl, Head(df)), Tail(df))

\* df.to_sql(table_name, con=engine, if_exists="append", index=False)
df_to_sql(tbl, df) == tbl \o df

\* variant: if_exists="replace", the table is dropped before the insert
to_sql_replace(df, tbl, outcome) ==
  IF df = <<>>
    THEN [tbl |-> tbl, out |-> <<"Warning: DataFrame is empty">>]
  ELSE IF outcome = "ok"
    THEN [tbl |-> df, out |-> <<"Successfully inserted">>]
  ELSE IF outcome = "SQLAlchemyError"
    THEN [tbl |-> <<>>, out |-> <<"SQLAlchemy error while inserting">>]
  ELSE [tbl |-> <<>>, out |-> <<"Unexpected error while inserting">>]

\* variant: the insert is not transactional, the rows sent before the error stay
to_sql_partial(df, tbl, outcome) ==
  IF df = <<>>
    THEN [tbl |-> tbl, out |-> <<"Warning: DataFrame is empty">>]
  ELSE IF outcome = "ok"
    THEN [tbl |-> tbl \o df, out |-> <<"Successfully inserted">>]
  ELSE IF outcome = "SQLAlchemyError"
    THEN [tbl |-> tbl \o df, out |-> <<"SQLAlchemy error while inserting">>]
  ELSE [tbl |-> tbl \o df, out |-> <<"Unexpected error while inserting">>]

\* to_sql: the table afterwards and what it printed.  pandas runs the insert
\* in one transaction, so an error leaves the table as it was.
to_sql(df, tbl, outcome) ==
  IF df = <<>>
    THEN [tbl |-> tbl, out |-> <<"Warning: DataFrame is empty">>]
  ELSE IF outcome = "ok"
    THEN [tbl |-> df_to_sql(tbl, df), out |-> <<"Successfully inserted">>]
  ELSE IF outcome = "SQLAlchemyError"
    THEN [tbl |-> tbl, out |-> <<"SQLAlchemy error while inserting">>]
  ELSE [tbl |-> tbl, out |-> <<"Unexpected error while inserting">>]

\* what main logs once to_sql has returned (line 229)
AfterWrite(outcome) == <<"Data successfully inserted into Azure SQL">>

\* variant: a failed append is tried again
PcAfterWrite_retry(outcome) == IF outcome = "ok" THEN "END" ELSE "WRITE"

\* main returns after line 229
PcAfterWrite(outcome) == "END"

\* variant: only the rows newer than the watermark are handed over
RECURSIVE BatchToWrite_novel(_, _)
BatchToWrite_novel(df, w) ==
  IF df = <<>> THEN <<>>
  ELSE IF Head(df).period[1] > w
    THEN <<Head(df)>> \o BatchToWrite_novel(Tail(df), w)
  ELSE BatchToWrite_novel(Tail(df), w)

\* line 228: df_new is handed to to_sql as it is
BatchToWrite(df, w) == df

\* lines 227-229, the append ending with outcome
WriteWith(p, outcome) ==
  /\ pc[p] = "WRITE"
  /\ LET res == to_sql(BatchToWrite(df_new[p], db_last_period[p]),
                       storage, outcome)
     IN /\ storage' = res.tbl
        /\ out' = [out EXCEPT ![p] = @ \o res.out \o AfterWrite(outcome)]
        /\ writeFailed' = [writeFailed EXCEPT ![p] = outcome # "ok"]
        /\ pc' = [pc EXCEPT ![p] = PcAfterWrite(outcome)]
  /\ writerCalls' = [writerCalls EXCEPT ![p] = @ + 1]
  /\ ops' = [ops EXCEPT ![p] = Append(@, "write")]
  /\ UNCHANGED <<clock, runs, locals, raised, storage0, window, resp,
                 published>>

Write(p) ==
  /\ \E outcome \in WriteOutcomes : WriteWith(p, outcome)
  /\ UNCHANGED pending

\* a failed append is remembered; a successful one makes up for the failed
\* run that is remembered
WriteHeal(p) ==
  \E outcome \in WriteOutcomes :
    /\ WriteWith(p, outcome)
    /\ pending' = IF outcome # "ok" THEN [pending EXCEPT !.st = "failed"]
                  ELSE IF pending.st = "failed"
                    THEN [pending EXCEPT !.st = "healed"]
                  ELSE NoPending

\* midnight passes
Tick ==
  /\ clock < MaxDay
  /\ clock' = clock + 1
  /\ UNCHANGED <<storage, runs, pc, locals, out, raised, storage0, window,
                 resp, writerCalls, writeFailed, ops, upstream>>

\* the upstream publishes the rows of one more day, never ahead of the day
Publish ==
  /\ published < clock
  /\ published' = published + 1
  /\ UNCHANGED <<storage, clock, runs, pc, locals, out, raised, storage0,
                 window, resp, writerCalls, writeFailed, ops, pending>>

Step(p) ==
  \/ ReadWatermarkFails(p)
  \/ ReadWatermark(p)
  \/ Fetch(p)
  \/ Write(p)

\* the scheduler serialises the invocations
Next ==
  \/ \E p \in Procs : Connect(p)
  \/ \E p \in Procs : Step(p)
  \/ Tick

Spec == Init /\ [][Next]_vars

\* an invocation under way is not stopped: the function runs to its return
SpecLive == Spec /\ \A p \in Procs : WF_vars(Step(p))

\* invocations may overlap; the upstream honours the requests
NextOverlap ==
  \/ \E p \in Procs : Connect(p)
  \/ \E p \in Procs : ConnectOverlapping(p)
  \/ \E p \in Procs : ReadWatermarkFails(p)
  \/ \E p \in Procs : ReadWatermark(p)
  \/ \E p \in Procs : FetchHonest(p)
  \/ \E p \in Procs : Write(p)
  \/ Tick
  \/ Publish

SpecOverlap == Init /\ [][NextOverlap]_vars

\* serialized invocations without end against an upstream that honours the
\* requests and publishes day after day
NextHeal ==
  \/ \E p \in Procs : Connect(p)
  \/ \E p \in Procs : Reconnect(p)
  \/ \E p \in Procs : ReadWatermarkFails(p)
  \/ \E p \in Procs : ReadWatermark(p)
  \/ \E p \in Procs : FetchHeal(p)
  \/ \E p \in Procs : WriteHeal(p)
  \/ Tick
  \/ Publish

\* an invocation under way goes on, the scheduler keeps triggering, and the
\* failures of the connection, the read, the fetch and the append are
\* transient: each succeeds in the end when tried again and again
HealFairness ==
  /\ \A p \in Procs : WF_vars(ReadWatermarkFails(p) \/ ReadWatermark(p))
  /\ \A p \in Procs : WF_vars(FetchHeal(p))
  /\ \A p \in Procs : WF_vars(WriteHeal(p))
  /\ \A p \in Procs : WF_vars(Connect(p) \/ Reconnect(p))
  /\ \A p \in Procs : SF_vars((Connect(p) \/ Reconnect(p)) /\ ~raised'[p])
  /\ \A p \in Procs : SF_vars(ReadWatermark(p))
  /\ \A p \in Procs :
       SF_vars(FetchHeal(p) /\ resp'[p].kind = "ok")
  /\ \A p \in Procs : SF_vars(WriteHeal(p) /\ ~writeFailed'[p])

SpecHeal == Init /\ [][NextHeal]_vars /\ HealFairness

TypeOK ==
  /\ clock \in 1..MaxDay
  /\ runs \in 0..MaxRuns
  /\ \A p \in Procs :
       pc[p] \in {"idle", "START", "WINDOW_COMPUTED", "WRITE", "END"}

\* ---------------------------------------------------------------- claims
Has(log, m) == \E i \in 1..Len(log) : log[i] = m

IsPrefix(s, t) == Len(s) <= Len(t) /\ SubSeq(t, 1, Len(s)) = s

Fetched(p) == window[p] # <<>>

\* the watermark of a table: its greatest period, the epoch when it is empty
Watermark(tbl) ==
  IF tbl = <<>> THEN Epoch ELSE Max(StoredPeriods(tbl))

BatchMax(df) == Max({df[i].period[1] : i \in 1..Len(df)})

WriteSucceeded(p) ==
  pc[p] = "END" /\ writerCalls[p] = 1 /\ ~writeFailed[p] /\ df_new[p] # <<>>

ValidRecord(r) ==
  /\ Len(r.period) = 1 /\ r.period[1] \in Int
  /\ Len(r.percentOutage) = 1 /\ r.percentOutage[1] \in Int
  /\ Len(r.capacity) <= 1 /\ \A i \in 1..Len(r.capacity) : r.capacity[i] \in Int
  /\ Len(r.outage) <= 1 /\ \A i \in 1..Len(r.outage) : r.outage[i] \in Int

\* C1: a run whose fetch returns a non-empty batch with maximum period at or
\* below the watermark of the run's start never calls the Writer, ends, and
\* leaves the stored rows as they were.
C1_StaleBatchNeverWritten ==
  \A p \in Procs :
    (Fetched(p) /\ df_new[p] # <<>>
       /\ BatchMax(df_new[p]) <= Watermark(storage0[p]))
    => /\ pc[p] = "END"
       /\ writerCalls[p] = 0
       /\ storage = storage0[p]

\* a run ended on an echo of the watermark (Scenario E)
C1_Witness ==
  \E p \in Procs :
    /\ pc[p] = "END" /\ Fetched(p) /\ df_new[p] # <<>>
    /\ storage0[p] # <<>>
    /\ BatchMax(df_new[p]) = Watermark(storage0[p])
    /\ storage = storage0[p]

\* C2: a run whose Fetcher returns zero records (nothing upstream or a failed
\* fetch) never calls the Writer, leaves storage unchanged and ends without
\* raising.
C2_EmptyFetchIsNoOp ==
  \A p \in Procs :
    (Fetched(p) /\ df_new[p] = <<>>)
    => /\ pc[p] = "END"
       /\ writerCalls[p] = 0
       /\ storage = storage0[p]
       /\ ~raised[p]

\* a run ended after the upstream answered with an empty array (Scenario B)
C2_Witness ==
  \E p \in Procs :
    /\ pc[p] = "END" /\ Fetched(p) /\ df_new[p] = <<>>
    /\ resp[p].kind = "ok" /\ resp[p].data = <<>>
    /\ storage0[p] # <<>>

\* C3: the window handed to the Fetcher is [W + 1 day, today], W being the
\* greatest period stored when the run started; with an empty table the
\* window starts on 1900-01-02, the day after the epoch.
C3_WindowIsWatermarkPlusOneToToday ==
  \A p \in Procs :
    Fetched(p)
    => /\ window[p][1] =
            IF storage0[p] = <<>> THEN Iso(Epoch + 1)
            ELSE Iso(Max(StoredPeriods(storage0[p])) + 1)
       /\ window[p][2] = Iso(today[p])
       /\ today[p] \in 1..clock

\* a fetch was issued for the day after the stored watermark, which is today
C3_Witness ==
  \E p \in Procs :
    /\ Fetched(p) /\ storage0[p] # <<>>
    /\ window[p][1] = Iso(2) /\ window[p][2] = Iso(2)

\* C4: the greatest stored period never decreases, whatever step is taken.
C4_WatermarkMonotone ==
  [][Watermark(storage') >= Watermark(storage)]_vars

\* a write moved the watermark forward
C4_Witness ==
  \E p \in Procs :
    /\ WriteSucceeded(p)
    /\ storage0[p] # <<>>
    /\ Watermark(storage) > Watermark(storage0[p])

\* C5: storage is append-only: every step leaves the rows already stored in
\* place and unmodified, and only adds rows after them.
C5_AppendOnly ==
  [][IsPrefix(storage, storage')]_vars

\* rows were appended behind rows already stored
C5_Witness ==
  \E p \in Procs :
    /\ WriteSucceeded(p)
    /\ storage0[p] # <<>>
    /\ Len(storage) > Len(storage0[p])
    /\ IsPrefix(storage0[p], storage)

\* C6: every record main hands to the Writer, and every stored record, has a
\* period and a percentOutage that are not null, and a capacity and an outage
\* that are a number or null.
C6_WriterGetsValidRecords ==
  /\ \A p \in Procs :
       (pc[p] = "WRITE" \/ writerCalls[p] > 0)
       => \A i \in 1..Len(df_new[p]) : ValidRecord(df_new[p][i])
  /\ \A i \in 1..Len(storage) : ValidRecord(storage[i])

\* a batch with a null capacity reached the Writer after another row of the
\* payload had been dropped
C6_Witness ==
  \E p \in Procs :
    /\ writerCalls[p] = 1
    /\ \E i \in 1..Len(df_new[p]) : df_new[p][i].capacity = Null
    /\ Len(resp[p].data) > Len(df_new[p])

\* C7: after a run has written a non-empty batch, and until another write,
\* the watermark read returns the greatest period of that batch.
C7_RoundTrip ==
  \A p \in Procs :
    WriteSucceeded(p)
    => \A sc \in Scalars(storage) :
         EffectiveWatermark(sc) = BatchMax(df_new[p])

\* a batch of two rows of different periods was written behind stored rows
C7_Witness ==
  \E p \in Procs :
    /\ WriteSucceeded(p)
    /\ storage0[p] # <<>>
    /\ Len(df_new[p]) = 2
    /\ df_new[p][1].period # df_new[p][2].period

\* C8: a run whose append hit a storage-layer error emits no success message,
\* neither the Writer's nor the orchestrator's.
C8_NoSuccessMessageAfterFailedWrite ==
  \A p \in Procs :
    writeFailed[p]
    => /\ ~Has(out[p], "Successfully inserted")
       /\ ~Has(out[p], "Data successfully inserted into Azure SQL")

\* C9: a write failure does not raise out of main and leaves the watermark
\* where the run found it, so the next window starts on the same day.
C9_FailedWriteKeepsWatermark ==
  \A p \in Procs :
    writeFailed[p]
    => /\ pc[p] = "END"
       /\ ~raised[p]
       /\ Watermark(storage) = Watermark(storage0[p])
       /\ \A sc \in Scalars(storage) :
            WindowStart(EffectiveWatermark(sc)) = start_date[p]

\* a run ended on a failed append
C9_Witness ==
  \E p \in Procs :
    /\ writeFailed[p] /\ pc[p] = "END" /\ writerCalls[p] = 1
    /\ Has(out[p], "SQLAlchemy error while inserting")

\* C10: when the connection or the watermark read raises, the run ends with
\* the exception before any fetch and any write, storage is untouched and no
\* insertion is reported; when the connection itself failed no line of the
\* run speaks of a success at all.
C10_StorageErrorAborts ==
  \A p \in Procs :
    raised[p]
    => /\ pc[p] = "END"
       /\ ~Fetched(p)
       /\ resp[p] = NoResponse
       /\ writerCalls[p] = 0
       /\ storage = storage0[p]
       /\ ~Has(out[p], "Successfully inserted")
       /\ ~Has(out[p], "Data successfully inserted into Azure SQL")
       /\ Has(out[p], "Failed to connect to database")
            => ~Has(out[p], "Connection to database successful")

\* the watermark read raised on an open connection
C10_Witness ==
  \E p \in Procs :
    /\ raised[p] /\ pc[p] = "END"
    /\ Has(out[p], "Connection to database successful")
    /\ ~Fetched(p)

\* the fetch of invocation p failed: the request, the status, the JSON or the
\* shape of the payload, or an exception while the rows were normalised
FetchFailed(p) ==
  /\ Fetched(p)
  /\ \/ resp[p].kind \in {"network", "http", "json", "shape"}
     \/ resp[p].kind = "ok" /\ MissingColumn(resp[p].data)

\* C11: every failure of the fetch is caught in the Fetcher and gives an
\* empty result with its diagnostic; nothing is raised out of main and the
\* run ends as a no-op without a write.
C11_FetchFailureIsCaught ==
  \A p \in Procs :
    FetchFailed(p)
    => /\ df_new[p] = <<>>
       /\ ~raised[p]
       /\ pc[p] = "END"
       /\ writerCalls[p] = 0
       /\ storage = storage0[p]
       /\ Has(out[p], "No new data from API, nothing to insert")
       /\ \/ Has(out[p], "Request error")
          \/ Has(out[p], "Data error")
          \/ Has(out[p], "Unexpected error")

\* a payload without a capacity key made the normalisation raise KeyError
C11_Witness ==
  \E p \in Procs :
    /\ FetchFailed(p) /\ pc[p] = "END"
    /\ resp[p].kind = "ok" /\ resp[p].data # <<>>
    /\ Has(out[p], "Unexpected error")
    /\ storage0[p] # <<>>

\* the answer invocation p got holds only rows of the window it asked for
Honours(p) ==
  /\ Fetched(p)
  /\ resp[p].kind = "ok"
  /\ \A i \in 1..Len(resp[p].data) :
       resp[p].data[i].period.t = "iso"
       => /\ window[p][1].v <= resp[p].data[i].period.v
          /\ resp[p].data[i].period.v <= window[p][2].v

SameKey(r1, r2) == r1.gen = r2.gen /\ r1.period = r2.period

\* the rows invocation p added to the table
Appended(p) == SubSeq(storage, Len(storage0[p]) + 1, Len(storage))

\* C12 (amended): with serialized runs and an upstream that returns only rows
\* of the requested window, no row a run appends has the generator and period
\* of a row stored before that run.
C12_NoReappendOfStoredKey ==
  \A p \in Procs :
    (WriteSucceeded(p) /\ Honours(p))
    => \A i \in 1..Len(Appended(p)) : \A j \in 1..Len(storage0[p]) :
         ~SameKey(Appended(p)[i], storage0[p][j])

\* a later run appended rows of today behind the rows of an earlier day
C12_Witness ==
  \E p \in Procs :
    /\ WriteSucceeded(p) /\ Honours(p)
    /\ storage0[p] # <<>>
    /\ Appended(p) # <<>>
    /\ \E i \in 1..Len(Appended(p)) : Appended(p)[i].period = Some(today[p])

\* C12 (as claimed): because the window ends today and appends are not
\* deduplicated, a run that starts when a row of today is already stored, and
\* whose upstream still serves that row within the range it is asked for,
\* fetches it again and appends it again.
C12_StoredRowOfTodayIsReappended ==
  \A p \in Procs :
    ( /\ pc[p] = "END" /\ Fetched(p) /\ ~raised[p] /\ ~writeFailed[p]
      /\ resp[p] = [kind |-> "ok",
                    data |-> FirstPage(published, window[p][1], window[p][2])]
      /\ published >= today[p] )
    => \A j \in 1..Len(storage0[p]) :
         storage0[p][j].period = Some(today[p])
         => \E i \in 1..Len(Appended(p)) :
              SameKey(Appended(p)[i], storage0[p][j])

Count(x, seq) == Cardinality({i \in 1..Len(seq) : seq[i] = x})

\* invocations p and q overlapped: both started from the same table, read
\* the same watermark, and both appended what they fetched
BothWrote(p, q) ==
  /\ p # q
  /\ WriteSucceeded(p) /\ WriteSucceeded(q)
  /\ storage0[p] = storage0[q]
  /\ db_last_period[p] = db_last_period[q]

\* C13: when two overlapping invocations read the same watermark and both
\* append, the table holds the rows of both batches on top of the rows it
\* had, so a row fetched by both is stored twice.
C13_OverlapStoresBothBatches ==
  \A p, q \in Procs :
    BothWrote(p, q)
    => \A i \in 1..Len(storage) :
         Count(storage[i], storage) >=
           Count(storage[i], storage0[p]) + Count(storage[i], df_new[p])
             + Count(storage[i], df_new[q])

\* two overlapping invocations fetched the same rows and the table holds a
\* row twice
C13_Witness ==
  \E p, q \in Procs :
    /\ BothWrote(p, q)
    /\ df_new[p] = df_new[q]
    /\ \E i, j \in 1..Len(storage) :
         /\ i < j
         /\ storage[i] = storage[j]
         /\ Count(storage[i], storage0[p]) = 0

\* C14: the batch that reaches the table is the whole normalised answer of
\* the fetch: no row is trimmed, not even one at or below the watermark, and
\* a successful write appends every one of them behind the stored rows.
C14_WholeBatchIsAppended ==
  \A p \in Procs :
    /\ pc[p] = "WRITE" => df_new[p] = dropna(MapCoerce(resp[p].data))
    /\ WriteSucceeded(p)
       => /\ storage = storage0[p] \o dropna(MapCoerce(resp[p].data))
          /\ (\A i \in 1..Len(resp[p].data) :
                DropnaKeep(Coerce(resp[p].data[i])))
             => Len(storage) = Len(storage0[p]) + Len(resp[p].data)

\* a batch of two valid rows was appended whole although one of its rows was
\* not newer than the watermark
C14_Witness ==
  \E p \in Procs :
    /\ WriteSucceeded(p)
    /\ Len(resp[p].data) = 2 /\ Len(Appended(p)) = 2
    /\ \E i \in 1..2 : Appended(p)[i].period[1] <= Watermark(storage0[p])

\* what the claim expects of one upstream row
Parses(v, tag) == v.t = tag
ExpectedField(v) == IF v.t = "num" THEN <<v.v>> ELSE <<>>
ExpectedRow(r) ==
  [gen |-> r.gen, period |-> <<r.period.v>>,
   capacity |-> ExpectedField(r.capacity),
   outage |-> ExpectedField(r.outage),
   percentOutage |-> <<r.percentOutage.v>>]

RECURSIVE ExpectedRows(_)
ExpectedRows(data) ==
  IF data = <<>> THEN <<>>
  ELSE IF Parses(Head(data).period, "iso")
            /\ Parses(Head(data).percentOutage, "num")
    THEN <<ExpectedRow(Head(data))>> \o ExpectedRows(Tail(data))
  ELSE ExpectedRows(Tail(data))

\* C15 (as claimed): whatever the payload, the Fetcher returns exactly its
\* rows whose period parses to a date and whose percentOutage parses to a
\* number, a capacity or outage that does not parse being null.
C15_ResultIsExactlyTheParsableRows ==
  \A p \in Procs :
    (Fetched(p) /\ resp[p].kind = "ok")
    => df_new[p] = ExpectedRows(resp[p].data)

\* C15 (amended): the same, for a payload in which each of the columns
\* period, capacity, outage and percentOutage occurs in at least one row; a
\* payload in which one of them occurs in no row gives an empty result.
C15_ResultIsTheParsableRowsOfACompletePayload ==
  \A p \in Procs :
    (Fetched(p) /\ resp[p].kind = "ok")
    => /\ ~MissingColumn(resp[p].data)
            => /\ df_new[p] = ExpectedRows(resp[p].data)
               /\ ~Has(out[p], "Unexpected error")
       /\ MissingColumn(resp[p].data) => df_new[p] = <<>>

\* a row with an unparseable percentOutage was dropped and a row with an
\* unparseable capacity was kept
C15_Witness ==
  \E p \in Procs :
    /\ Fetched(p) /\ resp[p].kind = "ok"
    /\ Len(resp[p].data) = 2 /\ Len(df_new[p]) = 1
    /\ resp[p].data[1].percentOutage = Bad
    /\ resp[p].data[2].capacity = Bad
    /\ df_new[p][1].capacity = Null

\* the window of invocation p starts after its end
Degenerate(p) ==
  /\ pc[p] \in {"WINDOW_COMPUTED", "WRITE", "END"}
  /\ start_date[p] > today[p]

\* C17: a run whose window starts after today still issues the fetch with
\* that window, and is a no-op on storage when the upstream returns nothing.
C17_DegenerateWindowIsFetched ==
  \A p \in Procs :
    Degenerate(p)
    => /\ pc[p] = "END" => Fetched(p)
       /\ Fetched(p)
          => /\ window[p] = <<Iso(start_date[p]), Iso(today[p])>>
             /\ window[p][1].v > window[p][2].v
       /\ (Fetched(p) /\ resp[p] = [kind |-> "ok", data |-> <<>>])
          => /\ pc[p] = "END"
             /\ writerCalls[p] = 0
             /\ storage = storage0[p]
             /\ ~raised[p]

\* a same-day rerun asked for the window [today + 1, today] and got nothing
C17_Witness ==
  \E p \in Procs :
    /\ Degenerate(p) /\ Fetched(p) /\ pc[p] = "END"
    /\ start_date[p] = today[p] + 1
    /\ resp[p] = [kind |-> "ok", data |-> <<>>]

\* C19: with serialized runs and an upstream that honours the range, a run
\* fetches and appends only rows later than the maximum period stored when
\* it started; a row at or below that maximum is never fetched again.
C19_OnlyForwardFromWatermark ==
  \A p \in Procs :
    Honours(p)
    => /\ \A i \in 1..Len(df_new[p]) :
            df_new[p][i].period[1] > Watermark(storage0[p])
       /\ \A i \in 1..Len(Appended(p)) :
            Appended(p)[i].period[1] > Watermark(storage0[p])
       /\ \A i \in 1..Len(resp[p].data) :
            resp[p].data[i].period.t = "iso"
            => resp[p].data[i].period.v > Watermark(storage0[p])

\* a later run went by although the table has no row of a day before its
\* watermark
C19_Witness ==
  \E p \in Procs :
    /\ Honours(p) /\ pc[p] = "END" /\ runs >= 2
    /\ \E d \in Days :
         /\ d > Epoch /\ d < Watermark(storage0[p])
         /\ d \notin StoredPeriods(storage)

\* C20: with serialized runs the Writer is called only with a batch that
\* holds a period later than the watermark of the run's start; a successful
\* write raises the greatest stored period, and a run that leaves it as it
\* was appended nothing.
C20_WriteOnlyNewerAndAdvances ==
  \A p \in Procs :
    /\ (pc[p] = "WRITE" \/ writerCalls[p] > 0)
       => \E i \in 1..Len(df_new[p]) :
            df_new[p][i].period[1] > Watermark(storage0[p])
    /\ WriteSucceeded(p) => Watermark(storage) > Watermark(storage0[p])
    /\ (pc[p] = "END" /\ Watermark(storage) = Watermark(storage0[p]))
       => storage = storage0[p]

\* the first write into the empty table moved the watermark off the epoch
C20_Witness ==
  \E p \in Procs :
    /\ WriteSucceeded(p)
    /\ storage0[p] = <<>>
    /\ Watermark(storage) > Epoch
    /\ Len(Appended(p)) = 1

\* the storage and upstream operations of one invocation, in program order
MainOps == <<"connect", "read", "fetch", "write">>

\* C16: every invocation of main reaches END, after at most one watermark
\* read, one fetch and one write in that order: no retry, and no read of
\* storage after the watermark read.
C16_TerminatesAfterOnePass ==
  /\ [](\A p \in Procs :
          /\ IsPrefix(ops[p], MainOps)
          /\ writerCalls[p] <= 1)
  /\ \A p \in Procs : (~Resting(p)) ~> (pc[p] = "END")

\* an invocation read, fetched, failed in the append and ended all the same
C16_Witness ==
  \E p \in Procs :
    /\ pc[p] = "END"
    /\ ops[p] = MainOps
    /\ writeFailed[p]

\* what the run remembered as x appends when its fetch and its write succeed
WouldAppend(x) ==
  LET res == retrieve_and_clean_data_from_api(
               [kind |-> "ok",
                data |-> FirstPage(x.pub, StrOfDate(WindowStart(x.w)),
                                   StrOfDate(x.today))])
  IN IF ~res.raised /\ Decide(res.df, x.w) = "WRITE"
       THEN BatchToWrite(res.df, x.w)
     ELSE <<>>

\* invocation p appends while a failed run is remembered and the upstream is
\* as that run found it
HealingWrite(p) ==
  /\ pending.st = "failed"
  /\ pending.pub = published
  /\ pc[p] = "WRITE"
  /\ writerCalls'[p] = writerCalls[p] + 1
  /\ ~writeFailed'[p]

\* no run has anything to write: a run that fetched ended in NO_NEW_DATA
Quiescent ==
  \A p \in Procs :
    /\ pc[p] # "WRITE"
    /\ (pc[p] = "END" /\ Fetched(p) /\ resp[p].kind = "ok")
       => /\ Has(out[p], "No new data from API, nothing to insert")
          /\ writerCalls[p] = 0

\* C18 (as claimed): with serialized runs and unchanged upstream data, the
\* first run to fetch and write after failed runs appends the batch the
\* failed run would have appended, and with transient failures storage ends
\* in a state from which every run ends in NO_NEW_DATA without writing.
C18_LaterRunAppendsTheFailedBatch ==
  /\ [][\A p \in Procs :
          HealingWrite(p) => storage' = storage \o WouldAppend(pending)]_vars
  /\ <>[]Quiescent

\* C18 (amended): the same when the upstream held no row later than the day
\* the failed run took as the end of its window.
C18_SelfHealing ==
  /\ [][\A p \in Procs :
          (HealingWrite(p) /\ pending.pub <= pending.today)
          => storage' = storage \o WouldAppend(pending)]_vars
  /\ <>[]Quiescent

\* a run of a later day has appended the batch of a failed run
C18_Witness ==
  \E p \in Procs :
    /\ pending.st = "healed"
    /\ pending.pub = published /\ pending.pub <= pending.today
    /\ pending.today < today[p]
    /\ WriteSucceeded(p)
    /\ Appended(p) = WouldAppend(pending)
    /\ Appended(p) # <<>>

====
